---- MODULE Spec2Model ----
(***************************************************************************)
(* Producer-side submission API of the task queue (package asynq,          *)
(* client.go): option constructors, composeOptions, Client.Enqueue with    *)
(* its two routing helpers, and the backing store it talks to.             *)
(*                                                                         *)
(* Instants and durations are integers counted in ticks; a second is       *)
(* TicksPerSec ticks, so that conversions to whole seconds truncate.       *)
(* Strings are tuples of one-character strings, so that strings.TrimSpace  *)
(* is computed rather than assumed.                                        *)
(***************************************************************************)
EXTENDS Integers, Sequences, FiniteSets, TLC

\* ------------------------------------------------------------------ bounds
TicksPerSec == 2     \* resolution of the clock (time.Duration counts ns)
MaxClock == 2        \* number of ticks the clock may advance in a behaviour
MaxCalls == 2        \* number of Enqueue calls in a behaviour

\* ------------------------------------------------------------------ values
\* nil as an error value, and nil as a pointer to a record.
Nil == "nil"
NilRec == [nil |-> TRUE]
Procs == {1, 2}

\* time.Unix(0, 0): the instant 0.
Epoch == 0
\* time.Time{}: January 1, year 1 UTC, 62135596800 s before the epoch. Only its
\* order and (in)equality with other instants are ever used: it stands below
\* every other instant of the model.
ZeroTime == -1000000
\* First reading of the clock.
Now0 == 4 * TicksPerSec

\* t.IsZero()
IsZero(t) == t = ZeroTime
\* t.Unix(): whole seconds since the epoch, rounded down.
Unix(t) == t \div TicksPerSec
\* int64(d.Seconds()): float seconds converted to an integer, truncating
\* toward zero.
Seconds(d) == IF d >= 0 THEN d \div TicksPerSec ELSE -((-d) \div TicksPerSec)

\* unicode.IsSpace on the characters of the model.
IsSpace(c) == c \in {" ", "\t"}
RECURSIVE TrimLeft(_)
TrimLeft(s) ==
    IF s # <<>> /\ IsSpace(Head(s)) THEN TrimLeft(Tail(s)) ELSE s
RECURSIVE TrimRight(_)
TrimRight(s) ==
    IF s # <<>> /\ IsSpace(s[Len(s)]) THEN TrimRight(SubSeq(s, 1, Len(s) - 1))
    ELSE s
\* strings.TrimSpace
TrimSpace(s) == TrimRight(TrimLeft(s))

\* ----------------------------------------------------------- option values
MaxRetryOpt == "MaxRetryOpt"
QueueOpt == "QueueOpt"
TimeoutOpt == "TimeoutOpt"
DeadlineOpt == "DeadlineOpt"
UniqueOpt == "UniqueOpt"
ProcessAtOpt == "ProcessAtOpt"
ProcessInOpt == "ProcessInOpt"
TaskIDOpt == "TaskIDOpt"
RetentionOpt == "RetentionOpt"
\* An implementation of the Option interface that is none of the nine above.
OtherOpt == "OtherOpt"

\* A retry option that keeps a negative count.
MaxRetryNoClamp(n) == [type |-> MaxRetryOpt, val |-> n]
MaxRetry(n) == [type |-> MaxRetryOpt, val |-> IF n < 0 THEN 0 ELSE n]
Queue(qname) == [type |-> QueueOpt, val |-> qname]
TaskID(id) == [type |-> TaskIDOpt, val |-> id]
Timeout(d) == [type |-> TimeoutOpt, val |-> d]
Deadline(t) == [type |-> DeadlineOpt, val |-> t]
Unique(ttl) == [type |-> UniqueOpt, val |-> ttl]
ProcessAt(t) == [type |-> ProcessAtOpt, val |-> t]
ProcessIn(d) == [type |-> ProcessInOpt, val |-> d]
Retention(d) == [type |-> RetentionOpt, val |-> d]
OtherOption == [type |-> OtherOpt, val |-> 0]

\* ------------------------------------------------------------------ errors
\* Validation errors.
ErrTypenameEmpty == "task typename cannot be empty"
ErrTaskIDEmpty == "task ID cannot be empty"
ErrQueueName == "queue name must contain one or more characters"
\* Public errors of the client.
ErrDuplicateTask == "task already exists"
ErrTaskIDConflict == "task ID conflicts with another task"
\* Errors of the backing store (package internal/errors) and of the transport.
StoreErrDuplicateTask == "errors.ErrDuplicateTask"
StoreErrTaskIdConflict == "errors.ErrTaskIdConflict"
StoreErrOther == "redis: connection error"
ValidationErrors == {ErrTypenameEmpty, ErrTaskIDEmpty, ErrQueueName}

\* --------------------------------------------------------- composeOptions
defaultMaxRetry == 25
defaultTimeout == 30 * 60 * TicksPerSec
noTimeout == 0
noDeadline == Epoch
DefaultQueueName == <<"d", "e", "f", "a", "u", "l", "t">>

\* option{}: the zero value returned beside a validation error.
ZeroOption ==
    [retry |-> 0, queue |-> <<>>, taskID |-> <<>>, timeout |-> 0,
     deadline |-> ZeroTime, uniqueTTL |-> 0, processAt |-> ZeroTime,
     retention |-> 0]

\* base.ValidateQueueName: a queue name must contain a non-blank character.
ValidateQueueName(qname) ==
    IF TrimSpace(qname) = <<>> THEN ErrQueueName ELSE Nil

\* The identifier check without strings.TrimSpace.
validateTaskIDNoTrim(id) ==
    IF id = <<>> THEN ErrTaskIDEmpty ELSE Nil

validateTaskID(id) ==
    IF TrimSpace(id) = <<>> THEN ErrTaskIDEmpty ELSE Nil

\* Defaults that schedule the task a second ahead.
InitialOptionAhead(id, now) ==
    [retry |-> defaultMaxRetry, queue |-> DefaultQueueName, taskID |-> id,
     timeout |-> 0, deadline |-> ZeroTime, uniqueTTL |-> 0,
     processAt |-> now + TicksPerSec, retention |-> 0]

\* The value of res before the loop; id is uuid.NewString(), now is time.Now().
InitialOption(id, now) ==
    [retry |-> defaultMaxRetry, queue |-> DefaultQueueName, taskID |-> id,
     timeout |-> 0, deadline |-> ZeroTime, uniqueTTL |-> 0, processAt |-> now,
     retention |-> 0]

\* The loop body with a retry option that only replaces the default.
ApplyOptionFirstRetry(res, opt, now) ==
    CASE opt.type = MaxRetryOpt ->
           IF res.retry = 25 THEN [res EXCEPT !.retry = opt.val] ELSE res
      [] opt.type = QueueOpt -> [res EXCEPT !.queue = opt.val]
      [] opt.type = TaskIDOpt -> [res EXCEPT !.taskID = opt.val]
      [] opt.type = TimeoutOpt -> [res EXCEPT !.timeout = opt.val]
      [] opt.type = DeadlineOpt -> [res EXCEPT !.deadline = opt.val]
      [] opt.type = UniqueOpt -> [res EXCEPT !.uniqueTTL = opt.val]
      [] opt.type = ProcessAtOpt -> [res EXCEPT !.processAt = opt.val]
      [] opt.type = ProcessInOpt -> [res EXCEPT !.processAt = now + opt.val]
      [] opt.type = RetentionOpt -> [res EXCEPT !.retention = opt.val]
      [] OTHER -> res

\* The loop body with a scheduled-in option that is ignored.
ApplyOptionNoProcessIn(res, opt, now) ==
    CASE opt.type = MaxRetryOpt -> [res EXCEPT !.retry = opt.val]
      [] opt.type = QueueOpt -> [res EXCEPT !.queue = opt.val]
      [] opt.type = TaskIDOpt -> [res EXCEPT !.taskID = opt.val]
      [] opt.type = TimeoutOpt -> [res EXCEPT !.timeout = opt.val]
      [] opt.type = DeadlineOpt -> [res EXCEPT !.deadline = opt.val]
      [] opt.type = UniqueOpt -> [res EXCEPT !.uniqueTTL = opt.val]
      [] opt.type = ProcessAtOpt -> [res EXCEPT !.processAt = opt.val]
      [] opt.type = RetentionOpt -> [res EXCEPT !.retention = opt.val]
      [] OTHER -> res

\* One iteration of the loop that succeeds: res after the option opt; now is
\* the time.Now() read by a ProcessIn option.
ApplyOption(res, opt, now) ==
    CASE opt.type = MaxRetryOpt -> [res EXCEPT !.retry = opt.val]
      [] opt.type = QueueOpt -> [res EXCEPT !.queue = opt.val]
      [] opt.type = TaskIDOpt -> [res EXCEPT !.taskID = opt.val]
      [] opt.type = TimeoutOpt -> [res EXCEPT !.timeout = opt.val]
      [] opt.type = DeadlineOpt -> [res EXCEPT !.deadline = opt.val]
      [] opt.type = UniqueOpt -> [res EXCEPT !.uniqueTTL = opt.val]
      [] opt.type = ProcessAtOpt -> [res EXCEPT !.processAt = opt.val]
      [] opt.type = ProcessInOpt -> [res EXCEPT !.processAt = now + opt.val]
      [] opt.type = RetentionOpt -> [res EXCEPT !.retention = opt.val]
      [] OTHER -> res

\* The validation an option goes through before it is stored.
OptionError(opt) ==
    CASE opt.type = QueueOpt -> ValidateQueueName(opt.val)
      [] opt.type = TaskIDOpt -> validateTaskID(opt.val)
      [] OTHER -> Nil

\* The loop of composeOptions over opts, from res.
RECURSIVE ComposeLoop(_, _, _)
ComposeLoop(res, opts, now) ==
    IF opts = <<>> THEN [opt |-> res, err |-> Nil]
    ELSE IF OptionError(Head(opts)) # Nil
         THEN [opt |-> ZeroOption, err |-> OptionError(Head(opts))]
         ELSE ComposeLoop(ApplyOption(res, Head(opts), now), Tail(opts), now)

\* composeOptions(opts...): id is the generated identifier, now0 the clock
\* read for the default processAt, now1 the clock read by ProcessIn options.
composeOptions(opts, id, now0, now1) ==
    ComposeLoop(InitialOption(id, now0), opts, now1)

\* ------------------------------------------------- submission record (msg)
\* deadline of Enqueue: the deadline option unless it is the zero time.
EffectiveDeadline(opt) ==
    IF ~IsZero(opt.deadline) THEN opt.deadline ELSE noDeadline

\* timeout of Enqueue without the fall-back to defaultTimeout.
EffectiveTimeoutNoDefault(opt) ==
    IF opt.timeout # 0 THEN opt.timeout ELSE noTimeout

\* timeout of Enqueue: the timeout option unless it is 0, and defaultTimeout
\* when neither a deadline nor a timeout is left.
EffectiveTimeout(opt) ==
    LET timeout == IF opt.timeout # 0 THEN opt.timeout ELSE noTimeout
    IN  IF EffectiveDeadline(opt) = noDeadline /\ timeout = noTimeout
        THEN defaultTimeout
        ELSE timeout

\* base.UniqueKey: "asynq:{<qname>}:unique:<type>:<md5 of the payload>". The
\* digest is kept as the payload it stands for (no collisions).
UniqueKey(qname, tasktype, payload) ==
    <<"unique", qname, tasktype, <<"md5", payload>>>>

\* uniqueKey derived from the identifier as well.
UniqueKeyForWithID(opt, typename, payload) ==
    IF opt.uniqueTTL > 0
    THEN UniqueKey(opt.queue \o opt.taskID, typename, payload)
    ELSE <<>>

\* uniqueKey of Enqueue; the empty string when no uniqueness was asked for.
UniqueKeyFor(opt, typename, payload) ==
    IF opt.uniqueTTL > 0 THEN UniqueKey(opt.queue, typename, payload) ELSE <<>>

\* msg := &base.TaskMessage{...}
TaskMessage(opt, typename, payload) ==
    [ID |-> opt.taskID, Type |-> typename, Payload |-> payload,
     Queue |-> opt.queue, Retry |-> opt.retry,
     Deadline |-> Unix(EffectiveDeadline(opt)),
     Timeout |-> Seconds(EffectiveTimeout(opt)),
     UniqueKey |-> UniqueKeyFor(opt, typename, payload),
     Retention |-> Seconds(opt.retention)]

\* base.TaskState values given to a result.
TaskStatePending == "pending"
TaskStateScheduled == "scheduled"

\* The comparison without the Equal(now) half.
IsImmediateStrict(processAt, now) == processAt < now

\* The comparison that routes a call: processAt.Before(now) || Equal(now).
IsImmediate(processAt, now) == processAt < now \/ processAt = now

\* A choice of the unique operation for every TTL other than 0.
EnqueueOpNonZero(uniqueTTL) ==
    IF uniqueTTL # 0 THEN "EnqueueUnique" ELSE "Enqueue"
\* The store operation Client.enqueue picks.
EnqueueOp(uniqueTTL) == IF uniqueTTL > 0 THEN "EnqueueUnique" ELSE "Enqueue"
\* The store operation Client.schedule picks.
ScheduleOp(uniqueTTL) == IF uniqueTTL > 0 THEN "ScheduleUnique" ELSE "Schedule"
\* A guard that does not cover the wait before execution.
ScheduleTTLNoWait(t, uniqueTTL, now) == uniqueTTL
\* ttl := t.Add(uniqueTTL).Sub(time.Now())
ScheduleTTL(t, uniqueTTL, now) == (t + uniqueTTL) - now

\* The switch without its first case.
MapErrorNoDuplicate(err) ==
    CASE err = StoreErrTaskIdConflict -> ErrTaskIDConflict
      [] OTHER -> err

\* The switch without its second case.
MapErrorNoConflict(err) ==
    CASE err = StoreErrDuplicateTask -> ErrDuplicateTask
      [] OTHER -> err

\* The switch with a last case that wraps the error in one of its own.
MapErrorWrapOther(err) ==
    CASE err = StoreErrDuplicateTask -> ErrDuplicateTask
      [] err = StoreErrTaskIdConflict -> ErrTaskIDConflict
      [] OTHER -> <<"enqueue failed", err>>

\* The switch on the store's error at the end of Enqueue.
MapError(err) ==
    CASE err = StoreErrDuplicateTask -> ErrDuplicateTask
      [] err = StoreErrTaskIdConflict -> ErrTaskIDConflict
      [] OTHER -> err

\* -------------------------------------------------------------------- state
VARIABLES
    clock,    \* time.Now(), in ticks
    ncalls,   \* Enqueue calls begun so far (numbers the generated identifiers)
    arr,      \* spare capacity behind each task's opts slice (shared memory)
    pc,       \* per goroutine: where its Enqueue call stands
    loc,      \* per goroutine: the locals of its Enqueue call
    result,   \* per goroutine: what its Enqueue call returned
    tasks,    \* backing store: the records it holds
    uniq,     \* backing store: the uniqueness keys it holds, with their expiry
    closed    \* backing store: the connection was closed by Client.Close

vars == <<clock, ncalls, arr, pc, loc, result, tasks, uniq, closed>>
storeVars == <<tasks, uniq, closed>>

\* A task built by NewTask(typename, payload, opts...); cap is the capacity of
\* its opts slice.
NewTask(typename, payload, opts) ==
    [typename |-> typename, payload |-> payload, opts |-> opts,
     cap |-> Len(opts)]
\* The same with room for one more option behind the slice (opts[:n] of a
\* longer slice).
NewTaskSpare(typename, payload, opts) ==
    [typename |-> typename, payload |-> payload, opts |-> opts,
     cap |-> Len(opts) + 1]

\* uuid.NewString() of the n-th call.
NewUUID(n) == <<"uuid", n>>

\* Locals of a goroutine that is in no call.
NoCall ==
    [task |-> NilRec, opts |-> <<>>, alias |-> FALSE, merged |-> <<>>,
     res0 |-> ZeroOption, opt |-> ZeroOption, msg |-> NilRec, now |-> ZeroTime,
     path |-> Nil, state |-> Nil, op |-> Nil, ttl |-> 0, at |-> ZeroTime,
     t |-> ZeroTime, storeErr |-> Nil, nops |-> 0]
NoResult == [info |-> NilRec, err |-> Nil]

\* ------------------------------------------------------------ backing store
\* The record the store keeps of an accepted message.
StoredTask(msg, state) ==
    [ID |-> msg.ID, Type |-> msg.Type, Payload |-> msg.Payload,
     Queue |-> msg.Queue, UniqueKey |-> msg.UniqueKey, state |-> state]

UniqueOps == {"EnqueueUnique", "ScheduleUnique"}
StoreOps == {"Enqueue", "Schedule"} \cup UniqueOps

\* The uniqueness key is present and has not expired.
KeyHeld(key) == \E e \in uniq : e.key = key /\ e.exp > clock
\* A record with this identifier exists.
IDExists(id) == \E r \in tasks : r.ID = id

\* What the store may answer to an operation, and the state it is left in:
\* a closed connection and a transport failure change nothing; a unique
\* operation whose key is held gives the duplicate signal; otherwise an
\* existing identifier gives the conflict signal; otherwise the record is
\* accepted, and a unique operation takes the key for ttl from now.
StoreOutcomes(op, msg, state, ttl) ==
    LET refused == [tasks |-> tasks, uniq |-> uniq]
        dup == op \in UniqueOps /\ KeyHeld(msg.UniqueKey)
        conflict == IDExists(msg.ID)
        badttl == op \in UniqueOps /\ ttl <= 0
        accepted ==
            [err |-> Nil,
             tasks |-> tasks \cup {StoredTask(msg, state)},
             uniq |-> IF op \in UniqueOps
                      THEN {e \in uniq : e.key # msg.UniqueKey}
                               \cup {[key |-> msg.UniqueKey, exp |-> clock + ttl]}
                      ELSE uniq]
    IN  IF closed THEN {[err |-> StoreErrOther] @@ refused}
        ELSE {[err |-> StoreErrOther] @@ refused}
             \cup (IF dup THEN {[err |-> StoreErrDuplicateTask] @@ refused}
                   ELSE {})
             \cup (IF ~dup /\ conflict
                   THEN {[err |-> StoreErrTaskIdConflict] @@ refused}
                   ELSE {})
             \cup (IF ~dup /\ ~conflict /\ ~badttl THEN {accepted} ELSE {})

\* --------------------------------------------------------- Client.Enqueue
\* opts = append(task.opts, opts...) writes behind task.opts when the new
\* options fit its capacity, and the slice it returns then shares that memory.
AppendInPlace(t, opts) ==
    opts # <<>> /\ Len(t.opts) + Len(opts) <= t.cap

\* What reading the i-th appended option can give when the append was made in
\* place: the slot is shared with every call on the same task, and nothing
\* orders the accesses of different goroutines. An option is an interface
\* value of two words (type and data); a read sees, for each word, the one
\* this call wrote or the one the slot holds now.
SlotReads(p, i) ==
    LET own == loc[p].opts[i]
        cur == arr[loc[p].task][i]
    IN  {[type |-> a.type, val |-> b.val] : a, b \in {own, cur}}

\* The merged options as the loop of composeOptions can read them.
MergedReads(p) ==
    LET c == loc[p]
        n == Len(c.opts)
    IN  IF c.alias
        THEN {c.task.opts \o s :
                s \in {f \in [1..n -> UNION {SlotReads(p, i) : i \in 1..n}] :
                         \A i \in 1..n : f[i] \in SlotReads(p, i)}}
        ELSE {c.merged}

\* newTaskInfo(msg, state, opt.processAt, nil)
newTaskInfo(msg, state, nextProcessAt) ==
    [msg |-> msg, state |-> state, nextProcessAt |-> nextProcessAt]

\* A return that hands back the task info beside an error.
EnqueueReturnBoth(err, msg, state, processAt) ==
    [info |-> newTaskInfo(msg, state, processAt),
     err |-> IF err # Nil THEN MapError(err) ELSE Nil]

\* What Enqueue returns after the store answered err.
EnqueueReturn(err, msg, state, processAt) ==
    IF err # Nil
    THEN [info |-> NilRec, err |-> MapError(err)]
    ELSE [info |-> newTaskInfo(msg, state, processAt), err |-> Nil]

\* The typename check without strings.TrimSpace.
TypenameErrorNoTrim(typename) ==
    IF typename = <<>> THEN ErrTypenameEmpty ELSE Nil

\* The typename check of Enqueue.
TypenameError(typename) ==
    IF TrimSpace(typename) = <<>> THEN ErrTypenameEmpty ELSE Nil

\* Enqueue is entered: the typename check, the append, and the first
\* statement of composeOptions (default values, clock read, new identifier).
Begin(p, t, opts) ==
    /\ pc[p] = "idle"
    /\ ncalls < MaxCalls
    /\ ncalls' = ncalls + 1
    /\ IF TypenameError(t.typename) # Nil
       THEN /\ pc' = [pc EXCEPT ![p] = "done"]
            /\ loc' = [loc EXCEPT ![p] = [NoCall EXCEPT !.task = t,
                                                         !.opts = opts]]
            /\ result' = [result EXCEPT
                            ![p] = [info |-> NilRec,
                                    err |-> TypenameError(t.typename)]]
            /\ arr' = arr
       ELSE /\ pc' = [pc EXCEPT ![p] = "compose"]
            /\ arr' = IF AppendInPlace(t, opts)
                      THEN [arr EXCEPT
                              ![t] = opts \o SubSeq(@, Len(opts) + 1, Len(@))]
                      ELSE arr
            /\ loc' = [loc EXCEPT
                         ![p] = [NoCall EXCEPT
                                   !.task = t,
                                   !.opts = opts,
                                   !.alias = AppendInPlace(t, opts),
                                   !.merged = IF AppendInPlace(t, opts)
                                              THEN <<>>
                                              ELSE t.opts \o opts,
                                   !.res0 = InitialOption(NewUUID(ncalls + 1),
                                                          clock)]]
            /\ result' = result
    /\ UNCHANGED <<clock, storeVars>>

\* A goroutine that is in no call calls Enqueue with a task of T and options
\* of O.
CallEnqueue(p, T, O) ==
    /\ pc[p] = "idle"
    /\ ncalls < MaxCalls
    /\ \E t \in T, opts \in O : Begin(p, t, opts)

\* The loop of composeOptions and, when it succeeds, the construction of msg.
Compose(p) ==
    /\ pc[p] = "compose"
    /\ \E m \in MergedReads(p) :
          LET c == loc[p]
              r == ComposeLoop(c.res0, m, clock)
          IN  IF r.err # Nil
              THEN /\ pc' = [pc EXCEPT ![p] = "done"]
                   /\ loc' = [loc EXCEPT ![p].opt = r.opt]
                   /\ result' = [result EXCEPT
                                   ![p] = [info |-> NilRec, err |-> r.err]]
              ELSE /\ pc' = [pc EXCEPT ![p] = "route"]
                   /\ loc' = [loc EXCEPT
                                ![p].opt = r.opt,
                                ![p].msg = TaskMessage(r.opt, c.task.typename,
                                                       c.task.payload)]
                   /\ result' = result
    /\ UNCHANGED <<clock, ncalls, arr, storeVars>>

\* The choice between the two paths without opt.processAt = now.
RouteNoClamp(p) ==
    /\ pc[p] = "route"
    /\ LET c == loc[p]
       IN  IF IsImmediate(c.opt.processAt, clock)
           THEN loc' = [loc EXCEPT ![p].now = clock,
                                   ![p].path = "immediate",
                                   ![p].state = TaskStatePending]
           ELSE loc' = [loc EXCEPT ![p].now = clock,
                                   ![p].path = "deferred",
                                   ![p].state = TaskStateScheduled]
    /\ pc' = [pc EXCEPT ![p] = "store"]
    /\ UNCHANGED <<clock, ncalls, arr, result, storeVars>>

\* now := time.Now() and the choice between the two paths.
Route(p) ==
    /\ pc[p] = "route"
    /\ LET c == loc[p]
       IN  IF IsImmediate(c.opt.processAt, clock)
           THEN loc' = [loc EXCEPT ![p].now = clock,
                                   ![p].opt.processAt = clock,
                                   ![p].path = "immediate",
                                   ![p].state = TaskStatePending]
           ELSE loc' = [loc EXCEPT ![p].now = clock,
                                   ![p].path = "deferred",
                                   ![p].state = TaskStateScheduled]
    /\ pc' = [pc EXCEPT ![p] = "store"]
    /\ UNCHANGED <<clock, ncalls, arr, result, storeVars>>

\* The operation c.enqueue or c.schedule performs for the path taken.
StoreOp(path, uniqueTTL) ==
    IF path = "immediate" THEN EnqueueOp(uniqueTTL) ELSE ScheduleOp(uniqueTTL)

\* The instant handed to the store with the operation op: the t of
\* Client.schedule; Client.enqueue hands none.
StoreTime(op, processAt) ==
    IF op \in {"Schedule", "ScheduleUnique"} THEN processAt ELSE ZeroTime

\* The TTL handed to the store with the operation op.
StoreTTL(op, processAt, uniqueTTL, now) ==
    CASE op = "EnqueueUnique" -> uniqueTTL
      [] op = "ScheduleUnique" -> ScheduleTTL(processAt, uniqueTTL, now)
      [] OTHER -> 0

\* c.enqueue or c.schedule: one operation on the store, its answer, and the
\* return of Enqueue.
Store(p) ==
    /\ pc[p] = "store"
    /\ LET c == loc[p]
           op == StoreOp(c.path, c.opt.uniqueTTL)
           ttl == StoreTTL(op, c.opt.processAt, c.opt.uniqueTTL, clock)
       IN  \E out \in StoreOutcomes(op, c.msg, c.state, ttl) :
              /\ tasks' = out.tasks
              /\ uniq' = out.uniq
              /\ loc' = [loc EXCEPT ![p].op = op,
                                    ![p].ttl = ttl,
                                    ![p].at = clock,
                                    ![p].t = StoreTime(op, c.opt.processAt),
                                    ![p].storeErr = out.err,
                                    ![p].nops = @ + 1]
              /\ result' = [result EXCEPT
                              ![p] = EnqueueReturn(out.err, c.msg, c.state,
                                                   c.opt.processAt)]
    /\ pc' = [pc EXCEPT ![p] = "done"]
    /\ UNCHANGED <<clock, ncalls, arr, closed>>

\* The caller has its answer and may call again.
Return(p) ==
    /\ pc[p] = "done"
    /\ pc' = [pc EXCEPT ![p] = "idle"]
    /\ loc' = [loc EXCEPT ![p] = NoCall]
    /\ result' = [result EXCEPT ![p] = NoResult]
    /\ UNCHANGED <<clock, ncalls, arr, storeVars>>

\* Client.Close: c.rdb.Close().
Close ==
    /\ ~closed
    /\ closed' = TRUE
    /\ UNCHANGED <<clock, ncalls, arr, pc, loc, result, tasks, uniq>>

\* Time passes; the store drops the keys that expire.
Tick ==
    /\ clock < Now0 + MaxClock
    /\ clock' = clock + 1
    /\ uniq' = {e \in uniq : e.exp > clock + 1}
    /\ UNCHANGED <<ncalls, arr, pc, loc, result, tasks, closed>>

\* ------------------------------------------------------------------ inputs
Blank == <<" ", "\t">>
Email == <<"e">>
Payloads == {"p1", "p2"}

\* Sequences of at most two options of S.
UpToTwo(S) == {<<>>} \cup {<<a>> : a \in S} \cup {<<a, b>> : a, b \in S}

\* Tasks and call-time options of the sequential specification.
SeqTasks ==
    {NewTask(Email, pl, <<>>) : pl \in Payloads}
        \cup {NewTask(Blank, "p1", <<>>), NewTask(Email, "p1", <<Unique(2)>>)}
SeqOptions ==
    {Unique(2), TaskID(<<"a">>), ProcessIn(2)}

\* Tasks whose opts slice has spare capacity.
SpareTasks == {NewTaskSpare(Email, "p1", <<Timeout(3 * TicksPerSec)>>)}

Init ==
    /\ clock = Now0
    /\ ncalls = 0
    /\ arr = [t \in SpareTasks |-> <<OtherOption>>]
    /\ pc = [p \in Procs |-> "idle"]
    /\ loc = [p \in Procs |-> NoCall]
    /\ result = [p \in Procs |-> NoResult]
    /\ tasks = {}
    /\ uniq = {}
    /\ closed = FALSE

\* One goroutine calls Enqueue again and again; the clock advances and the
\* client may be closed at any point.
Next ==
    \/ CallEnqueue(1, SeqTasks, UpToTwo(SeqOptions))
    \/ Compose(1)
    \/ Route(1)
    \/ Store(1)
    \/ Return(1)
    \/ Close
    \/ Tick

Spec == Init /\ [][Next]_vars

\* Tasks and call-time options of the single-call specification: every kind
\* of option, with the values the code treats specially (a negative retry
\* count, blank names, zero, negative and sub-second durations, the zero time
\* and the epoch) beside ordinary ones.
WideOptions ==
    {MaxRetry(-1), MaxRetry(3),
     Queue(<<>>), Queue(<<"q">>),
     TaskID(<<" ">>), TaskID(<<"a">>),
     Timeout(0), Timeout(1), Timeout(3 * TicksPerSec), Timeout(-TicksPerSec),
     Deadline(ZeroTime), Deadline(Epoch), Deadline(Now0 + 4 * TicksPerSec),
     Unique(0), Unique(-1), Unique(2),
     ProcessAt(Now0 + 2), ProcessIn(2), ProcessIn(-1),
     Retention(TicksPerSec), OtherOption}
WideDefaults ==
    {<<>>, <<MaxRetry(5)>>, <<Queue(<<"r">>)>>, <<Queue(<<"\t">>)>>,
     <<TaskID(<<"b">>)>>, <<Timeout(5 * TicksPerSec)>>,
     <<Deadline(Now0 + 6 * TicksPerSec)>>, <<Unique(3)>>,
     <<ProcessIn(1)>>, <<Retention(2 * TicksPerSec)>>}
WideTasks ==
    {NewTask(Email, "p1", d) : d \in WideDefaults}
        \cup {NewTask(Blank, "p1", <<>>), NewTask(<<>>, "p2", <<Unique(3)>>)}

\* A single Enqueue call, over the wide inputs.
NextWide ==
    \/ ncalls = 0 /\ CallEnqueue(1, WideTasks, UpToTwo(WideOptions))
    \/ Compose(1)
    \/ Route(1)
    \/ Store(1)
    \/ Return(1)
    \/ Tick

SpecWide == Init /\ [][NextWide]_vars

\* Tasks and call-time options of the concurrent specification: every task
\* asks for uniqueness, and a call adds at most one option.
ConcTasks == {NewTask(Email, pl, <<Unique(2)>>) : pl \in Payloads}
ConcOptions ==
    {MaxRetry(3), Timeout(3 * TicksPerSec), Deadline(Now0 + 4 * TicksPerSec),
     TaskID(<<"a">>), Retention(TicksPerSec), Queue(<<"q">>)}
UpToOne(S) == {<<>>} \cup {<<a>> : a \in S}

\* Two goroutines share the client; each calls Enqueue once.
NextConc ==
    \/ \E p \in Procs : CallEnqueue(p, ConcTasks, UpToOne(ConcOptions))
    \/ \E p \in Procs : Compose(p)
    \/ \E p \in Procs : Route(p)
    \/ \E p \in Procs : Store(p)
    \/ Tick

SpecConc == Init /\ [][NextConc]_vars

\* Call-time options of the shared-task specification.
ShareOptions ==
    {MaxRetry(3), Timeout(2 * TicksPerSec), Retention(TicksPerSec)}

\* Two goroutines share the client and a task whose opts slice has spare
\* capacity; each calls Enqueue once.
NextShare ==
    \/ \E p \in Procs : CallEnqueue(p, SpareTasks, UpToOne(ShareOptions))
    \/ \E p \in Procs : Compose(p)
    \/ \E p \in Procs : Route(p)
    \/ \E p \in Procs : Store(p)
    \/ Tick

SpecShare == Init /\ [][NextShare]_vars

\* -------------------------------------------------------------- properties
\* A string that is empty or made of white space only.
IsBlankString(s) == \A i \in 1..Len(s) : s[i] \in {" ", "\t"}

\* The options a call is given: the task's own, then the call's.
Given(p) == loc[p].task.opts \o loc[p].opts
\* Some option of the sequence is of this kind.
HasKind(opts, kind) == \E i \in 1..Len(opts) : opts[i].type = kind
\* The value of the last option of this kind.
LastOf(opts, kind) ==
    opts[CHOOSE i \in 1..Len(opts) :
           /\ opts[i].type = kind
           /\ \A j \in (i + 1)..Len(opts) : opts[j].type # kind].val

\* The call of p has begun and not yet been handed back.
InCall(p) == pc[p] # "idle"
\* The call of p has built its record.
HasMsg(p) == pc[p] \in {"route", "store", "done"} /\ loc[p].msg # NilRec
\* The call of p has returned.
Returned(p) == pc[p] = "done"

\* C1: a call whose task has an empty or white-space-only type name returns
\* straight from the typename check with the validation error and no result;
\* it performs no store operation and leaves the store as it was.
C1_BlankTypeRejected ==
    [][\A p \in Procs :
          (/\ pc'[p] = "done"
           /\ pc[p] # "done"
           /\ IsBlankString(loc'[p].task.typename))
          => /\ pc[p] = "idle"
             /\ result'[p] = [info |-> NilRec, err |-> ErrTypenameEmpty]
             /\ loc'[p].nops = 0
             /\ loc'[p].op = Nil
             /\ UNCHANGED <<tasks, uniq, closed>>]_vars

\* C1 witness: a white-space-only type name was rejected although options were
\* passed and the store already holds a record.
C1_Witness ==
    /\ Returned(1)
    /\ loc[1].task.typename = Blank
    /\ loc[1].opts # <<>>
    /\ result[1].err = ErrTypenameEmpty
    /\ tasks # {}

\* C2: the step that reads now routes a resolved time at or before now to the
\* immediate path and a later one to the deferred path; the following step
\* performs exactly one store operation, Enqueue or EnqueueUnique on the
\* immediate path with state pending, Schedule or ScheduleUnique on the
\* deferred path with state scheduled.
C2_Routing ==
    [][\A p \in Procs :
          /\ (pc[p] = "route" /\ pc'[p] # "route")
             => /\ pc'[p] = "store"
                /\ loc'[p].now = clock
                /\ (loc[p].opt.processAt <= clock
                      => loc'[p].path = "immediate")
                /\ (loc[p].opt.processAt > clock
                      => loc'[p].path = "deferred")
          /\ (pc[p] = "store" /\ pc'[p] # "store")
             => /\ loc'[p].nops = 1
                /\ loc[p].path \in {"immediate", "deferred"}
                /\ (loc[p].path = "immediate"
                      => /\ loc'[p].op \in {"Enqueue", "EnqueueUnique"}
                         /\ (result'[p].info # NilRec
                               => result'[p].info.state = "pending"))
                /\ (loc[p].path = "deferred"
                      => /\ loc'[p].op \in {"Schedule", "ScheduleUnique"}
                         /\ (result'[p].info # NilRec
                               => result'[p].info.state = "scheduled"))]_vars

\* C2 witness: a call scheduled in the future was accepted on the deferred
\* path although the clock had advanced since the options were composed.
C2_Witness ==
    /\ Returned(1)
    /\ loc[1].path = "deferred"
    /\ loc[1].now > loc[1].res0.processAt
    /\ loc[1].op = "ScheduleUnique"
    /\ result[1].info # NilRec
    /\ result[1].info.state = "scheduled"

\* C3: when no timeout option and no deadline option is given, the record
\* carries a timeout of 1800 seconds and the deadline 0 (none).
C3_DefaultTimeout ==
    \A p \in Procs :
        (/\ HasMsg(p)
         /\ ~HasKind(Given(p), TimeoutOpt)
         /\ ~HasKind(Given(p), DeadlineOpt))
        => /\ loc[p].msg.Timeout = 1800
           /\ loc[p].msg.Deadline = 0

\* C3 witness: such a record, of a call given other options, reached the store.
C3_Witness ==
    /\ Returned(1)
    /\ result[1].info # NilRec
    /\ Given(1) # <<>>
    /\ ~HasKind(Given(1), TimeoutOpt)
    /\ ~HasKind(Given(1), DeadlineOpt)
    /\ result[1].info.msg.Timeout = 1800

\* C4: when a timeout option and a deadline option are both given, the record
\* carries the given timeout and the given deadline.
C4_BothPreserved ==
    \A p \in Procs :
        (/\ HasMsg(p)
         /\ HasKind(Given(p), TimeoutOpt)
         /\ HasKind(Given(p), DeadlineOpt))
        => /\ loc[p].msg.Timeout * TicksPerSec = LastOf(Given(p), TimeoutOpt)
           /\ loc[p].msg.Deadline * TicksPerSec = LastOf(Given(p), DeadlineOpt)

\* The step in which the call of p gets the store's answer, a transport
\* failure and a closed connection left aside.
StoreAnswers(p) ==
    /\ pc[p] = "store"
    /\ pc'[p] = "done"
    /\ loc'[p].storeErr # StoreErrOther
\* The uniqueness key of the call of p, from its queue, type and payload.
KeyOf(p) ==
    UniqueKey(loc[p].opt.queue, loc[p].task.typename, loc[p].task.payload)
\* The store holds an earlier record with this key.
EarlierWithKey(key) == \E r \in tasks : r.UniqueKey = key

\* C5 as stated: a call with a uniqueness TTL > 0 whose key is held and
\* unexpired returns ErrDuplicateTask and adds no record; when the key of an
\* earlier submission has expired, the call succeeds.
C5_UniqueWindow ==
    [][\A p \in Procs :
          (StoreAnswers(p) /\ loc[p].opt.uniqueTTL > 0)
          => IF KeyHeld(KeyOf(p))
             THEN /\ result'[p] = [info |-> NilRec, err |-> ErrDuplicateTask]
                  /\ tasks' = tasks
             ELSE EarlierWithKey(KeyOf(p))
                    => /\ result'[p].err = Nil
                       /\ result'[p].info # NilRec
                       /\ StoredTask(loc[p].msg, loc[p].state) \in tasks']_vars

\* C5 amended: as C5, but after the key has expired the call succeeds only
\* when its identifier is not in the store; when it is, the call returns
\* ErrTaskIDConflict.
C5_UniqueWindowAmended ==
    [][\A p \in Procs :
          (StoreAnswers(p) /\ loc[p].opt.uniqueTTL > 0)
          => IF KeyHeld(KeyOf(p))
             THEN /\ result'[p] = [info |-> NilRec, err |-> ErrDuplicateTask]
                  /\ tasks' = tasks
             ELSE EarlierWithKey(KeyOf(p))
                    => IF IDExists(loc[p].opt.taskID)
                       THEN /\ result'[p] =
                                 [info |-> NilRec, err |-> ErrTaskIDConflict]
                            /\ tasks' = tasks
                       ELSE /\ result'[p].err = Nil
                            /\ result'[p].info # NilRec
                            /\ StoredTask(loc[p].msg, loc[p].state)
                                 \in tasks']_vars

\* C5 witness: a unique submission was accepted although the store holds an
\* earlier record with the same key (the key of that one had expired).
C5_Witness ==
    /\ Returned(1)
    /\ result[1].info # NilRec
    /\ loc[1].opt.uniqueTTL > 0
    /\ Cardinality({r \in tasks : r.UniqueKey = KeyOf(1)}) = 2

\* C6 as stated: a call with an explicit identifier that exists in the store
\* returns ErrTaskIDConflict, with or without a uniqueness TTL, on both paths.
C6_IDConflict ==
    [][\A p \in Procs :
          (/\ StoreAnswers(p)
           /\ HasKind(Given(p), TaskIDOpt)
           /\ IDExists(loc[p].opt.taskID))
          => /\ result'[p] = [info |-> NilRec, err |-> ErrTaskIDConflict]
             /\ result'[p].err \notin {ErrDuplicateTask, loc'[p].storeErr}]_vars

\* C6 amended: such a call returns ErrTaskIDConflict unless it asked for
\* uniqueness and its key is held and unexpired; then it returns
\* ErrDuplicateTask.
C6_IDConflictAmended ==
    [][\A p \in Procs :
          (/\ StoreAnswers(p)
           /\ HasKind(Given(p), TaskIDOpt)
           /\ IDExists(loc[p].opt.taskID))
          => IF loc[p].opt.uniqueTTL > 0 /\ KeyHeld(KeyOf(p))
             THEN result'[p] = [info |-> NilRec, err |-> ErrDuplicateTask]
             ELSE /\ result'[p] = [info |-> NilRec, err |-> ErrTaskIDConflict]
                  /\ result'[p].err
                       \notin {ErrDuplicateTask, loc'[p].storeErr}]_vars

\* C6 witness: a unique submission on the deferred path, whose key was free,
\* was refused for its identifier.
C6_Witness ==
    /\ Returned(1)
    /\ HasKind(Given(1), TaskIDOpt)
    /\ loc[1].op = "ScheduleUnique"
    /\ result[1].err = ErrTaskIDConflict

\* C7: two calls with a uniqueness TTL > 0 and the same queue, type and
\* payload carry the same uniqueness key, whatever their other options; two
\* calls whose payloads differ carry different keys.
C7_KeyFromTriple ==
    \A p, q \in Procs :
        (/\ HasMsg(p) /\ HasMsg(q)
         /\ loc[p].opt.uniqueTTL > 0 /\ loc[q].opt.uniqueTTL > 0)
        => /\ (/\ loc[p].msg.Queue = loc[q].msg.Queue
               /\ loc[p].msg.Type = loc[q].msg.Type
               /\ loc[p].msg.Payload = loc[q].msg.Payload)
              => /\ loc[p].msg.UniqueKey = loc[q].msg.UniqueKey
                 /\ loc[p].msg.UniqueKey # <<>>
           /\ loc[p].msg.Payload # loc[q].msg.Payload
              => loc[p].msg.UniqueKey # loc[q].msg.UniqueKey

\* C7 witness: two records with the same queue, type and payload but different
\* identifiers and retry budgets.
C7_Witness ==
    /\ HasMsg(1) /\ HasMsg(2)
    /\ loc[1].opts = <<TaskID(<<"a">>)>>
    /\ loc[2].opts = <<MaxRetry(3)>>
    /\ loc[1].msg.Payload = loc[2].msg.Payload
    /\ loc[1].msg.ID # loc[2].msg.ID
    /\ loc[1].msg.UniqueKey = loc[2].msg.UniqueKey

\* The value the configuration holds for a kind with one field of its own:
\* that of the last option of the kind, or the default.
Winner(opts, kind, default) ==
    IF HasKind(opts, kind) THEN LastOf(opts, kind) ELSE default
\* The fields of the resolved configuration other than the scheduled time.
PlainFieldsLastWin(p) ==
    LET g == Given(p)
        o == loc[p].opt
    IN  /\ o.retry = Winner(g, MaxRetryOpt, 25)
        /\ o.queue = Winner(g, QueueOpt, DefaultQueueName)
        /\ o.taskID = Winner(g, TaskIDOpt, loc[p].res0.taskID)
        /\ o.timeout = Winner(g, TimeoutOpt, 0)
        /\ o.deadline = Winner(g, DeadlineOpt, ZeroTime)
        /\ o.uniqueTTL = Winner(g, UniqueOpt, 0)
        /\ o.retention = Winner(g, RetentionOpt, 0)
\* The scheduled time is d after some reading of the clock made during the
\* call of p.
ScheduledIn(p, d) ==
    \E c \in loc[p].res0.processAt..clock : loc[p].opt.processAt = c + d
\* The last scheduled-at or scheduled-in option of a sequence that has one.
LastSchedule(opts) ==
    opts[CHOOSE i \in 1..Len(opts) :
           /\ opts[i].type \in {ProcessAtOpt, ProcessInOpt}
           /\ \A j \in (i + 1)..Len(opts) :
                 opts[j].type \notin {ProcessAtOpt, ProcessInOpt}]

\* C8 as stated: the resolved configuration holds, for each of the nine kinds,
\* the value of the last option of that kind, and the default of a kind that
\* has no option.
C8_LastWins ==
    \A p \in Procs :
        pc[p] = "route"
        => /\ PlainFieldsLastWin(p)
           /\ HasKind(Given(p), ProcessAtOpt)
                => loc[p].opt.processAt = LastOf(Given(p), ProcessAtOpt)
           /\ HasKind(Given(p), ProcessInOpt)
                => ScheduledIn(p, LastOf(Given(p), ProcessInOpt))
           /\ (~HasKind(Given(p), ProcessAtOpt)
                  /\ ~HasKind(Given(p), ProcessInOpt))
                => loc[p].opt.processAt = loc[p].res0.processAt

\* C8 amended: the same for the seven kinds that have a field of their own;
\* scheduled-at and scheduled-in share the scheduled time, which is set by
\* whichever option of the two kinds comes last.
C8_LastWinsAmended ==
    \A p \in Procs :
        pc[p] = "route"
        => /\ PlainFieldsLastWin(p)
           /\ IF HasKind(Given(p), ProcessAtOpt)
                   \/ HasKind(Given(p), ProcessInOpt)
              THEN LET last == LastSchedule(Given(p))
                   IN  IF last.type = ProcessAtOpt
                       THEN loc[p].opt.processAt = last.val
                       ELSE ScheduledIn(p, last.val)
              ELSE loc[p].opt.processAt = loc[p].res0.processAt

\* C8 witness: a call-time retry option has overridden the retry option
\* attached to the task.
C8_Witness ==
    /\ pc[1] = "route"
    /\ loc[1].task.opts = <<MaxRetry(5)>>
    /\ loc[1].opts = <<MaxRetry(-1), MaxRetry(3)>>
    /\ loc[1].opt.retry = 3

\* A queue or task-id option whose value is blank.
InvalidOption(o) == o.type \in {QueueOpt, TaskIDOpt} /\ IsBlankString(o.val)

\* C9: a call one of whose options is a queue option with an invalid name or
\* a blank task-id option returns a validation error from composeOptions,
\* with no configuration, no store operation and the store as it was, even
\* when a later option of the same kind is valid.
C9_ValidationFirst ==
    [][\A p \in Procs :
          (/\ pc'[p] = "done"
           /\ pc[p] # "done"
           /\ ~IsBlankString(loc'[p].task.typename)
           /\ \E i \in 1..Len(Given(p)') : InvalidOption(Given(p)'[i]))
          => /\ pc[p] = "compose"
             /\ result'[p].info = NilRec
             /\ result'[p].err \in {ErrQueueName, ErrTaskIDEmpty}
             /\ loc'[p].opt = ZeroOption
             /\ loc'[p].nops = 0
             /\ UNCHANGED <<tasks, uniq, closed>>]_vars

\* C9 witness: the task's queue option is invalid and the call's is valid.
C9_Witness ==
    /\ Returned(1)
    /\ loc[1].task.opts = <<Queue(<<"\t">>)>>
    /\ loc[1].opts = <<Queue(<<"q">>)>>
    /\ result[1].err = ErrQueueName

\* C10: a call returns either a task info with state pending or scheduled and
\* no error, after exactly one store operation that accepted the record, or
\* no task info and an error, with no record added to the store.
C10_Outcome ==
    [][\A p \in Procs :
          (pc'[p] = "done" /\ pc[p] # "done")
          => \/ /\ result'[p].info # NilRec
                /\ result'[p].err = Nil
                /\ result'[p].info.state \in {"pending", "scheduled"}
                /\ loc'[p].nops = 1
                /\ loc'[p].storeErr = Nil
                /\ tasks' # tasks
                /\ tasks' = tasks \cup {StoredTask(result'[p].info.msg,
                                                   result'[p].info.state)}
             \/ /\ result'[p].info = NilRec
                /\ result'[p].err # Nil
                /\ loc'[p].nops <= 1
                /\ tasks' = tasks]_vars

\* C10 witness: a call was refused as a duplicate; the store holds the one
\* record of the earlier call.
C10_Witness ==
    /\ Returned(1)
    /\ result[1] = [info |-> NilRec, err |-> ErrDuplicateTask]
    /\ loc[1].nops = 1
    /\ Cardinality(tasks) = 1

\* C11: when the store answers with an error that is neither the duplicate
\* signal nor the identifier-conflict signal, the call returns that very error
\* and no task info, after its one store operation; no call performs a second
\* store operation, whatever the store answered.
C11_PassThrough ==
    [][\A p \in Procs :
          /\ (/\ pc[p] = "store"
              /\ pc'[p] # "store"
              /\ loc'[p].storeErr
                    \notin {Nil, StoreErrDuplicateTask, StoreErrTaskIdConflict})
             => /\ result'[p] = [info |-> NilRec, err |-> loc'[p].storeErr]
                /\ pc'[p] = "done"
                /\ tasks' = tasks
          /\ loc'[p].nops <= 1
          /\ (loc[p].nops = 1 /\ pc'[p] # "idle")
             => /\ loc'[p].nops = 1
                /\ loc'[p].storeErr = loc[p].storeErr
                /\ pc'[p] = "done"]_vars

\* C11 witness: the store failed on an open connection and the call returned
\* the store's error after one operation.
C11_Witness ==
    /\ Returned(1)
    /\ ~closed
    /\ loc[1].storeErr = StoreErrOther
    /\ result[1] = [info |-> NilRec, err |-> StoreErrOther]
    /\ loc[1].nops = 1

\* C12: the TTL handed to ScheduleUnique is the scheduled time plus the
\* uniqueness TTL minus the clock read when the guard is computed, so that the
\* key of an accepted record expires at the scheduled time plus the uniqueness
\* TTL; when the scheduled time comes from a scheduled-in option d, that is d
\* plus the uniqueness TTL after the clock read at composition, however much
\* the clock advanced since.
C12_ScheduleGuard ==
    [][\A p \in Procs :
          (/\ pc[p] = "store"
           /\ pc'[p] = "done"
           /\ loc'[p].op = "ScheduleUnique")
          => LET t == loc[p].opt.processAt
                 uniqueTTL == loc[p].opt.uniqueTTL
             IN  /\ loc'[p].ttl = (t + uniqueTTL) - clock
                 /\ loc'[p].storeErr = Nil
                    => \E e \in uniq' :
                          /\ e.key = loc[p].msg.UniqueKey
                          /\ e.exp = t + uniqueTTL
                 /\ LastSchedule(Given(p)).type = ProcessInOpt
                    => \E c \in loc[p].res0.processAt..loc[p].now :
                          /\ t = c + LastSchedule(Given(p)).val
                          /\ loc'[p].ttl
                               = (LastSchedule(Given(p)).val + uniqueTTL)
                                   - (clock - c)]_vars

\* C12 witness: a deferred unique submission was accepted after the clock had
\* advanced both before routing and before the guard was computed, and its
\* key expires at the scheduled time plus the uniqueness TTL.
C12_Witness ==
    /\ Returned(1)
    /\ loc[1].op = "ScheduleUnique"
    /\ loc[1].storeErr = Nil
    /\ loc[1].now > loc[1].res0.processAt
    /\ loc[1].at > loc[1].now
    /\ loc[1].ttl < LastOf(Given(1), ProcessInOpt) + loc[1].opt.uniqueTTL
    /\ \E e \in uniq :
          /\ e.key = loc[1].msg.UniqueKey
          /\ e.exp = loc[1].opt.processAt + loc[1].opt.uniqueTTL

\* C13: a call with no options on a task with no options builds a record
\* with retry 25, the default queue, a timeout of 1800 seconds, no deadline
\* and no uniqueness key; it is routed to the immediate path, performs Enqueue
\* and, when accepted, is reported pending (the clock never goes backwards).
C13_NoOptions ==
    \A p \in Procs :
        (InCall(p) /\ Given(p) = <<>>)
        => /\ HasMsg(p)
              => /\ loc[p].msg.Retry = 25
                 /\ loc[p].msg.Queue = <<"d", "e", "f", "a", "u", "l", "t">>
                 /\ loc[p].msg.Timeout = 1800
                 /\ loc[p].msg.Deadline = 0
                 /\ loc[p].msg.UniqueKey = <<>>
                 /\ loc[p].msg.ID = loc[p].res0.taskID
           /\ pc[p] = "store"
              => loc[p].path = "immediate" /\ loc[p].state = "pending"
           /\ (pc[p] = "done" /\ loc[p].nops = 1)
              => /\ loc[p].path = "immediate"
                 /\ loc[p].op = "Enqueue"
                 /\ result[p].info # NilRec
                    => /\ result[p].info.state = "pending"
                       /\ result[p].info.nextProcessAt = loc[p].now

\* C13 witness: such a call was accepted as pending although the clock had
\* advanced between composition and routing.
C13_Witness ==
    /\ Returned(1)
    /\ Given(1) = <<>>
    /\ loc[1].now > loc[1].res0.processAt
    /\ result[1].info # NilRec
    /\ result[1].info.state = "pending"
    /\ result[1].info.msg.Timeout = 1800

\* C14: every retry option carries a count >= 0 (a negative count is turned
\* into 0 when the option is built), and the retry budget of every record
\* built for the store is >= 0.
C14_RetryNonNegative ==
    /\ MaxRetry(-1).val = 0
    /\ \A p \in Procs :
          InCall(p)
          => /\ \A i \in 1..Len(Given(p)) :
                   Given(p)[i].type = MaxRetryOpt => Given(p)[i].val >= 0
             /\ HasMsg(p) => loc[p].msg.Retry >= 0
             /\ (pc[p] = "done" /\ result[p].info # NilRec)
                => result[p].info.msg.Retry >= 0

\* C14 witness: the store accepted a record whose last retry option was built
\* from a negative count; its retry budget is 0.
C14_Witness ==
    /\ Returned(1)
    /\ loc[1].opts = <<MaxRetry(3), MaxRetry(-1)>>
    /\ result[1].info # NilRec
    /\ result[1].info.msg.Retry = 0

\* C15: Close completes only when no Enqueue call is in flight: every call
\* that has begun has its outcome when the connection is closed.
C15_CloseWaits ==
    [][(~closed /\ closed')
          => \A p \in Procs : pc[p] \in {"idle", "done"}]_vars

\* C16: when the options hold both a scheduled-at and a scheduled-in option,
\* the composition step resolves the scheduled time from the last of them
\* alone: the instant of a last scheduled-at, or the clock of the composition
\* step plus the duration of a last scheduled-in.
C16_LastScheduleWins ==
    [][\A p \in Procs :
          (/\ pc[p] = "compose"
           /\ pc'[p] = "route"
           /\ HasKind(Given(p), ProcessAtOpt)
           /\ HasKind(Given(p), ProcessInOpt))
          => LET last == LastSchedule(Given(p))
             IN  /\ last.type = ProcessAtOpt
                    => loc'[p].opt.processAt = last.val
                 /\ last.type = ProcessInOpt
                    => loc'[p].opt.processAt = clock + last.val]_vars

\* C16 witness: a scheduled-in attached to the task and a scheduled-at passed
\* to the call were both overridden by a scheduled-in that came last, composed
\* after the clock had advanced.
C16_Witness ==
    /\ pc[1] = "route"
    /\ loc[1].task.opts = <<ProcessIn(1)>>
    /\ loc[1].opts = <<ProcessAt(Now0 + 2), ProcessIn(-1)>>
    /\ loc[1].opt.processAt = loc[1].res0.processAt
    /\ loc[1].res0.processAt = Now0

\* C17: routing leaves the resolved scheduled time of a deferred call as it
\* is; the time reported with an accepted record is never before the now read
\* at routing: it is that now on the immediate path, and on the deferred path
\* the resolved scheduled time, which is the instant handed to Schedule or
\* ScheduleUnique.
C17_ReportedTime ==
    [][\A p \in Procs :
          /\ (pc[p] = "route" /\ pc'[p] = "store"
                 /\ loc'[p].path = "deferred")
             => /\ loc'[p].opt.processAt = loc[p].opt.processAt
                /\ loc'[p].opt.processAt > loc'[p].now
          /\ (pc[p] = "store" /\ pc'[p] = "done"
                 /\ result'[p].info # NilRec)
             => /\ result'[p].info.nextProcessAt >= loc[p].now
                /\ loc[p].path = "immediate"
                   => /\ result'[p].info.nextProcessAt = loc[p].now
                      /\ loc'[p].t = ZeroTime
                /\ loc[p].path = "deferred"
                   => /\ result'[p].info.nextProcessAt = loc[p].opt.processAt
                      /\ result'[p].info.nextProcessAt = loc'[p].t
                      /\ loc'[p].op \in {"Schedule", "ScheduleUnique"}]_vars

\* C17 witness: a record whose scheduled time lay in the past at routing was
\* accepted and is reported at the now of routing.
C17_Witness ==
    /\ Returned(1)
    /\ result[1].info # NilRec
    /\ loc[1].path = "immediate"
    /\ loc[1].res0.processAt < loc[1].now
    /\ ~HasKind(Given(1), ProcessInOpt)
    /\ result[1].info.nextProcessAt = loc[1].now

\* C18: in every call that reached the store, the record has a uniqueness
\* key exactly when the resolved uniqueness TTL is > 0, and the operation is
\* the unique variant of its path exactly when the record has a key.
C18_KeyAndVariant ==
    \A p \in Procs :
        (pc[p] = "done" /\ loc[p].nops = 1)
        => /\ loc[p].msg.UniqueKey # <<>> <=> loc[p].opt.uniqueTTL > 0
           /\ loc[p].op \in UniqueOps <=> loc[p].msg.UniqueKey # <<>>
           /\ loc[p].path = "immediate"
              => loc[p].op = IF loc[p].msg.UniqueKey # <<>>
                             THEN "EnqueueUnique" ELSE "Enqueue"
           /\ loc[p].path = "deferred"
              => loc[p].op = IF loc[p].msg.UniqueKey # <<>>
                             THEN "ScheduleUnique" ELSE "Schedule"
           /\ loc[p].opt.uniqueTTL
                = Winner(Given(p), UniqueOpt, 0)

\* C18 witness: the uniqueness TTL attached to the task was overridden by a
\* negative one; the accepted record has no key and went through Enqueue.
C18_Witness ==
    /\ Returned(1)
    /\ loc[1].task.opts = <<Unique(3)>>
    /\ loc[1].opts = <<Unique(-1)>>
    /\ result[1].info # NilRec
    /\ result[1].info.msg.UniqueKey = <<>>
    /\ loc[1].op = "Enqueue"

\* C19: when a timeout option is given and no deadline option, the record
\* carries the whole seconds of the given timeout, an explicit zero included,
\* and the deadline 0 (none); when a deadline option is given and no timeout
\* option, the record carries the given deadline and the timeout 0 (none).
C19_OneSetVerbatim ==
    \A p \in Procs :
        HasMsg(p)
        => /\ (HasKind(Given(p), TimeoutOpt)
                 /\ ~HasKind(Given(p), DeadlineOpt))
              => /\ loc[p].msg.Timeout
                      = Seconds(LastOf(Given(p), TimeoutOpt))
                 /\ loc[p].msg.Deadline = 0
           /\ (HasKind(Given(p), DeadlineOpt)
                 /\ ~HasKind(Given(p), TimeoutOpt)
                 /\ LastOf(Given(p), DeadlineOpt) > Epoch)
              => /\ loc[p].msg.Deadline
                      = Unix(LastOf(Given(p), DeadlineOpt))
                 /\ loc[p].msg.Timeout = 0

\* C20: the task a call was given keeps its type, payload and options, and
\* the configuration a call resolves is the one its own options give: for
\* each kind, the last option of that kind among the task's options followed
\* by the call's own, or the default.
C20_CallLocal ==
    \A p \in Procs :
        HasMsg(p)
        => /\ loc[p].task \in SpareTasks
           /\ PlainFieldsLastWin(p)
           /\ loc[p].msg.Retry = Winner(Given(p), MaxRetryOpt, 25)
           /\ loc[p].msg.Retention
                = Seconds(Winner(Given(p), RetentionOpt, 0))

\* C21: every record built for the store has a bounded execution window: its
\* timeout, in whole seconds, is not 0 (none) or its deadline, in seconds
\* since the epoch, is not 0 (none).
C21_BoundedWindow ==
    \A p \in Procs :
        HasMsg(p) => loc[p].msg.Timeout # 0 \/ loc[p].msg.Deadline # 0

====
